---- MODULE Spec2Model ----
(***************************************************************************)
(* A model of findexpr.cpp: the search for arithmetic expressions over a   *)
(* fixed operand sequence.  The module holds                               *)
(*   - the arithmetic of the operation registry (oplist) over the base     *)
(*     type T = double, tracked on the doubles a bounded rational names,   *)
(*   - the expression tree (Value / Expr nodes on a heap of shared nodes), *)
(*     with eval, output, setvalues, setops and OpsGenerator,              *)
(*   - enumtrees as the machine its continuation-passing recursion runs,   *)
(*   - main's search loop,                                                 *)
(* and the specifications SpecEnum (enumtrees with a collecting callback), *)
(* SpecUnit (the tree functions called one at a time; SpecOps and          *)
(* SpecValues are its parts for setops and setvalues), SpecCat (the cat    *)
(* operation on integers) and Spec (main).                                 *)
(***************************************************************************)
EXTENDS Integers, Sequences, FiniteSets, TLC

----------------------------------------------------------------------------
(* Bounds of the model.                                                    *)

\* Largest numerator / denominator of a tracked double.
Lim == 10000
\* main: the digits and counts given with -d and -n.
MaxDigit == 2
MaxCount == 4
\* main: the count at which intpow(6, count-1) no longer fits an int.
BigCount == 13
\* main: the smallest count at which enumtrees hands one Expr to two trees.
ShareCount == 5
\* SpecEnum: the largest leaf count handed to enumtrees.
MaxLeaves == 7
\* SpecUnit: the largest tree, and the longest operand sequence is one more.
MaxUnitLeaves == 3
\* SpecCat: the operands of cat range over 0..MaxCatArg.
MaxCatArg == 12

----------------------------------------------------------------------------
(* The base type T = double.  A value is a pair <<n, d>>:                  *)
(*   d > 0   n/d in lowest terms, |n| and d at most Lim.  When d is a      *)
(*           power of two the double is n/d itself (zero is <<0,1>>, +0).  *)
(*           Otherwise n/d is no double and the pair is the double nearest *)
(*           to n/d: what one +, -, * or / of IEEE arithmetic returns for  *)
(*           operands that are exact.  The rounding error of that double   *)
(*           is below 2^-39, the distance of n/d to any other tracked      *)
(*           rational at least 10^-8, so order, sign and equality of the   *)
(*           doubles are those of the rationals.                           *)
(*   PINF, NINF, NAN   the IEEE infinities and NaN,                        *)
(*   UNK     a double the model does not track, any double at all: the     *)
(*           result of an operation on a rounded operand, an irrational or *)
(*           not correctly rounded result of pow, a numerator or           *)
(*           denominator beyond Lim, or a negative zero.                   *)

PINF == <<1, 0>>
NINF == <<-1, 0>>
NAN  == <<0, 0>>
UNK  == <<0, -1>>
Zero == <<0, 1>>
One  == <<1, 1>>

Abs(x) == IF x < 0 THEN -x ELSE x

RECURSIVE GCD(_, _)
GCD(a, b) == IF b = 0 THEN a ELSE GCD(b, a % b)

IsFin(v) == v[2] > 0

RECURSIVE IsPow2(_)
IsPow2(d) == d = 1 \/ (d > 1 /\ d % 2 = 0 /\ IsPow2(d \div 2))

\* The double is the rational n/d itself, not a rounding of it.
Exact(v) == IsFin(v) /\ IsPow2(v[2])
IsInteger(v) == v[2] = 1
FromInt(k) == IF Abs(k) <= Lim THEN <<k, 1>> ELSE UNK

\* The double an operation returns whose exact result is n/d (d # 0): n/d in
\* lowest terms, exact or correctly rounded, or UNK beyond the tracked range.
Rat(n, d) ==
    LET s == IF d < 0 THEN -1 ELSE 1
        g == GCD(Abs(n), Abs(d))
        nn == (s * n) \div g
        dd == (s * d) \div g
    IN  IF n = 0 THEN Zero
        ELSE IF Abs(nn) > Lim \/ dd > Lim THEN UNK
        ELSE <<nn, dd>>

\* -1, 0 (NaN, +0), 1 for a tracked value or a special.
Sign(v) == IF v[1] > 0 THEN 1 ELSE IF v[1] < 0 THEN -1 ELSE 0

\* a < b, |a| < 1, |a| = 1 for tracked doubles.
Less(a, b) == a[1] * b[2] < b[1] * a[2]
AbsLessOne(a) == Abs(a[1]) < a[2]
AbsIsOne(a) == Abs(a[1]) = a[2]

Add(a, b) ==
    IF a = NAN \/ b = NAN THEN NAN
    ELSE IF a = UNK \/ b = UNK THEN UNK
    ELSE IF ~IsFin(a) THEN (IF ~IsFin(b) /\ b # a THEN NAN ELSE a)
    ELSE IF ~IsFin(b) THEN b
    ELSE IF ~(Exact(a) /\ Exact(b)) THEN UNK
    ELSE Rat(a[1] * b[2] + b[1] * a[2], a[2] * b[2])

Sub(a, b) ==
    IF a = NAN \/ b = NAN THEN NAN
    ELSE IF a = UNK \/ b = UNK THEN UNK
    ELSE IF ~IsFin(a) THEN (IF b = a THEN NAN ELSE a)
    ELSE IF ~IsFin(b) THEN (IF b = PINF THEN NINF ELSE PINF)
    ELSE IF ~(Exact(a) /\ Exact(b)) THEN UNK
    ELSE Rat(a[1] * b[2] - b[1] * a[2], a[2] * b[2])

Mul(a, b) ==
    IF a = NAN \/ b = NAN THEN NAN
    ELSE IF a = UNK \/ b = UNK THEN UNK
    ELSE IF ~IsFin(a) \/ ~IsFin(b)
         THEN (IF a = Zero \/ b = Zero THEN NAN
               ELSE IF Sign(a) * Sign(b) > 0 THEN PINF ELSE NINF)
    ELSE IF a = Zero \/ b = Zero
         \* 0 * negative is the negative zero
         THEN (IF Sign(a) < 0 \/ Sign(b) < 0 THEN UNK ELSE Zero)
    ELSE IF ~(Exact(a) /\ Exact(b)) THEN UNK
    ELSE Rat(a[1] * b[1], a[2] * b[2])

Div(a, b) ==
    IF a = NAN \/ b = NAN THEN NAN
    ELSE IF a = UNK \/ b = UNK THEN UNK
    ELSE IF ~IsFin(a)
         THEN (IF ~IsFin(b) THEN NAN
               ELSE IF b = Zero THEN a
               ELSE IF Sign(a) * Sign(b) > 0 THEN PINF ELSE NINF)
    ELSE IF ~IsFin(b)
         \* finite / infinite is a zero, negative when the signs differ
         THEN (IF (Sign(a) >= 0 /\ b = PINF) \/ (Sign(a) < 0 /\ b = NINF)
               THEN Zero ELSE UNK)
    ELSE IF b = Zero
         THEN (IF a = Zero THEN NAN ELSE IF Sign(a) > 0 THEN PINF ELSE NINF)
    ELSE IF a = Zero THEN (IF Sign(b) < 0 THEN UNK ELSE Zero)
    ELSE IF ~(Exact(a) /\ Exact(b)) THEN UNK
    ELSE Rat(a[1] * b[2], a[2] * b[1])

\* acc * a^k for exact acc and a, stopping once the range is left.
RECURSIVE PowAcc(_, _, _)
PowAcc(acc, a, k) ==
    IF k = 0 \/ acc = UNK THEN acc ELSE PowAcc(Mul(acc, a), a, k - 1)

\* a^k for an integer k >= 1 and an exact a # 0.
PowInt(a, k) ==
    IF a = <<-1, 1>> THEN (IF k % 2 = 0 THEN One ELSE a)
    ELSE PowAcc(One, a, k)

\* pow(a, b) of <cmath>.  pow(1, y) and pow(x, 0) are 1 for every x and y,
\* NaN included.  A result that is a double is returned as it is; the
\* rounding of any other result is left to the library.
Pow(a, b) ==
    IF a = One \/ b = Zero THEN One
    ELSE IF a = UNK \/ b = UNK THEN UNK
    ELSE IF a = NAN \/ b = NAN THEN NAN
    ELSE IF ~IsFin(b)
         THEN (IF IsFin(a) /\ AbsIsOne(a) THEN One
               ELSE IF IsFin(a) /\ AbsLessOne(a)
                    THEN (IF b = PINF THEN Zero ELSE PINF)
               ELSE (IF b = PINF THEN PINF ELSE Zero))
    ELSE IF a = PINF THEN (IF Sign(b) < 0 THEN Zero ELSE PINF)
    ELSE IF a = NINF
         THEN (IF IsInteger(b) /\ b[1] % 2 = 1
               THEN (IF Sign(b) < 0 THEN UNK ELSE NINF)
               ELSE (IF Sign(b) < 0 THEN Zero ELSE PINF))
    ELSE IF a = Zero THEN (IF Sign(b) > 0 THEN Zero ELSE PINF)
    ELSE IF IsInteger(b)
         THEN (IF ~Exact(a) THEN UNK
               ELSE IF b[1] > 0 THEN PowInt(a, b[1])
               ELSE LET r == Div(One, PowInt(a, -b[1]))
                    IN  IF Exact(r) THEN r ELSE UNK)
    ELSE IF Sign(a) < 0 THEN NAN
    ELSE UNK

\* -a, the neg operation: the sign bit of the double.
Neg(a) ==
    IF a = NAN \/ a = UNK THEN a
    ELSE IF a = Zero THEN UNK
    ELSE <<-a[1], a[2]>>

\* The loop of tenfactor on a tracked double: f *= 10 while i < 20 and x >= f.
RECURSIVE tenfactor_loop(_, _, _)
tenfactor_loop(x, f, i) ==
    IF i < 20 /\ x[1] >= f * x[2] THEN tenfactor_loop(x, f * 10, i + 1) ELSE f

\* tenfactor(x).  NaN and -inf fail the first comparison; +inf runs all 20
\* rounds and gives 10^20, which is beyond the tracked range.
tenfactor(x) ==
    IF x = UNK \/ x = PINF THEN UNK
    ELSE IF x = NAN \/ x = NINF THEN One
    ELSE FromInt(tenfactor_loop(x, 1, 0))

\* The cat operation: args[0]*tenfactor(args[1])+args[1].
Cat(a, b) ==
    IF b = PINF
    \* a * 1e20 + inf
    THEN (IF a = NAN \/ a = NINF THEN NAN ELSE IF a = UNK THEN UNK ELSE PINF)
    ELSE Add(Mul(a, tenfactor(b)), b)

----------------------------------------------------------------------------
(* int arithmetic of intpow: 32 bit two's complement.  Signed overflow is  *)
(* undefined; the multiplication instruction the build emits wraps.        *)

Byte(x, k) ==
    LET p == IF k = 0 THEN 1 ELSE IF k = 1 THEN 256
             ELSE IF k = 2 THEN 65536 ELSE 16777216
    IN  (x \div p) % 256

\* x * y modulo 2^32, as a signed int.
Mul32(x, y) ==
    LET p0 == Byte(x, 0) * Byte(y, 0)
        p1 == Byte(x, 0) * Byte(y, 1) + Byte(x, 1) * Byte(y, 0)
        p2 == Byte(x, 0) * Byte(y, 2) + Byte(x, 1) * Byte(y, 1)
              + Byte(x, 2) * Byte(y, 0)
        p3 == Byte(x, 0) * Byte(y, 3) + Byte(x, 1) * Byte(y, 2)
              + Byte(x, 2) * Byte(y, 1) + Byte(x, 3) * Byte(y, 0)
        c1 == p1 + (p0 \div 256)
        c2 == p2 + (c1 \div 256)
        c3 == p3 + (c2 \div 256)
        r3 == c3 % 256
    IN  (IF r3 >= 128 THEN r3 - 256 ELSE r3) * 16777216
        + (c2 % 256) * 65536 + (c1 % 256) * 256 + (p0 % 256)

RECURSIVE intpow_loop(_, _, _)
intpow_loop(r, a, b) ==
    IF b > 0
    THEN intpow_loop(IF b % 2 = 1 THEN Mul32(r, a) ELSE r, Mul32(a, a), b \div 2)
    ELSE r

\* integer exponentiation
intpow(a, b) == intpow_loop(1, a, b)

----------------------------------------------------------------------------
(* The operation registry.  An Operation* is an index into oplist, and     *)
(* nullptr is 0.                                                           *)

nullptr == 0

oplist == <<
    [name |-> <<"a","d","d">>, infix |-> <<"+">>,     n |-> 2, precedence |-> 1],
    [name |-> <<"s","u","b">>, infix |-> <<"-">>,     n |-> 2, precedence |-> 1],
    [name |-> <<"m","u","l">>, infix |-> <<"*">>,     n |-> 2, precedence |-> 2],
    [name |-> <<"d","i","v">>, infix |-> <<"/">>,     n |-> 2, precedence |-> 3],
    [name |-> <<"p","o","w">>, infix |-> <<"^">>,     n |-> 2, precedence |-> 4],
    [name |-> <<"c","a","t">>, infix |-> <<"|","|">>, n |-> 2, precedence |-> 5],
    [name |-> <<"n","e","g">>, infix |-> <<"-">>,     n |-> 1, precedence |-> 2] >>

\* op->fn(args) for an assigned op.
fn(o, args) ==
    CASE o = 1 -> Add(args[1], args[2])
      [] o = 2 -> Sub(args[1], args[2])
      [] o = 3 -> Mul(args[1], args[2])
      [] o = 4 -> Div(args[1], args[2])
      [] o = 5 -> Pow(args[1], args[2])
      [] o = 6 -> Cat(args[1], args[2])
      [] o = 7 -> Neg(args[1])

precedence(o) == IF o = nullptr THEN 9 ELSE oplist[o].precedence

\* main: the operations with n == 2, in the order of oplist.
binops == SelectSeq([k \in 1..Len(oplist) |-> k], LAMBDA k : oplist[k].n = 2)

----------------------------------------------------------------------------
(* The expression tree.  A Node::ptr is a record [kind, id, args]: id is   *)
(* the identity of the object it points to, so two pointers with the same  *)
(* id share one object.  The mutable fields live on the heap: value[id]    *)
(* for a Value, op[id] for an Expr.                                        *)

\* Value::make(): std::make_shared<Value>() value-initialises value to 0.
Value_make(id) == [kind |-> "Value", id |-> id, args |-> <<>>]
\* Expr::make(l, r), Expr::make(l): op(nullptr), args{l, r} or args{l}.
Expr_make(id, l, r) == [kind |-> "Expr", id |-> id, args |-> <<l, r>>]
Expr_make1(id, l) == [kind |-> "Expr", id |-> id, args |-> <<l>>]
NoNode == [kind |-> "None", id |-> 0, args |-> <<>>]

RECURSIVE NodeIds(_)
NodeIds(t) ==
    {t.id} \cup UNION {NodeIds(t.args[k]) : k \in 1..Len(t.args)}

RECURSIVE ValueIds(_)
ValueIds(t) ==
    IF t.kind = "Value" THEN {t.id}
    ELSE UNION {ValueIds(t.args[k]) : k \in 1..Len(t.args)}

ExprIds(t) == NodeIds(t) \ ValueIds(t)

\* The heap of a tree whose nodes are all new.
FreshValue(t) == [n \in ValueIds(t) |-> Zero]
FreshOp(t) == [n \in ExprIds(t) |-> nullptr]

\* Expr::eval / Value::eval, for a tree whose reachable ops are all assigned.
RECURSIVE eval(_, _, _)
eval(t, value, op) ==
    IF t.kind = "Value" THEN value[t.id]
    ELSE fn(op[t.id], [k \in 1..Len(t.args) |-> eval(t.args[k], value, op)])

\* Expr::eval reaches op->fn with op == nullptr at some node.
DerefsNull(t, op) == \E n \in ExprIds(t) : op[n] = nullptr

\* What expr->eval() can end in.  Calling through a null op is undefined:
\* the build either faults or goes on with a value nothing determines.
EvalOutcomes(t, value, op) ==
    IF DerefsNull(t, op)
    THEN {[status |-> "segfault", result |-> UNK],
          [status |-> "garbage", result |-> UNK]}
    ELSE {[status |-> "ok", result |-> eval(t, value, op)]}

DigitChar == <<"0", "1", "2", "3", "4", "5", "6", "7", "8", "9">>

RECURSIVE Digits(_)
Digits(n) ==
    IF n < 10 THEN <<DigitChar[n + 1]>>
    ELSE Digits(n \div 10) \o <<DigitChar[(n % 10) + 1]>>

\* os << value for a double that holds an integer of at most six digits
\* (the stream's default precision); the leaves hold nothing else.
NumText(v) ==
    IF IsFin(v) /\ IsInteger(v) /\ Abs(v[1]) < 1000000
    THEN (IF v[1] < 0 THEN <<"-">> ELSE <<>>) \o Digits(Abs(v[1]))
    ELSE <<"?">>

RECURSIVE JoinArgs(_, _)
JoinArgs(texts, k) ==
    IF k > Len(texts) THEN <<>>
    ELSE (IF k > 1 THEN <<",">> ELSE <<>>) \o texts[k] \o JoinArgs(texts, k + 1)

Bracket(need, text) == IF need THEN <<"(">> \o text \o <<")">> ELSE text

\* The test of Expr::output for brackets around a child.
needbrackets(o, child, op) ==
    precedence(o) > precedence(IF child.kind = "Value" THEN nullptr
                               ELSE op[child.id])

\* Expr::output / Value::output: the text, one character per element.
RECURSIVE output(_, _, _)
output(t, value, op) ==
    IF t.kind = "Value" THEN NumText(value[t.id])
    ELSE LET o == op[t.id]
             texts == [k \in 1..Len(t.args) |-> output(t.args[k], value, op)]
         IN  IF o = nullptr
             THEN (IF Len(t.args) = 2
                   THEN <<"(">> \o texts[1] \o <<"#">> \o texts[2] \o <<")">>
                   ELSE IF Len(t.args) = 1
                   THEN <<"(", "-">> \o texts[1] \o <<")">>
                   ELSE <<"o", "p", "(">> \o JoinArgs(texts, 1) \o <<")">>)
             ELSE IF Len(t.args) = 2 /\ oplist[o].infix # <<>>
             THEN Bracket(needbrackets(o, t.args[1], op), texts[1])
                  \o oplist[o].infix
                  \o Bracket(needbrackets(o, t.args[2], op), texts[2])
             ELSE IF Len(t.args) = 1 /\ oplist[o].infix # <<>>
             THEN oplist[o].infix
                  \o Bracket(needbrackets(o, t.args[1], op), texts[1])
             ELSE oplist[o].name \o <<"(">> \o JoinArgs(texts, 1) \o <<")">>

----------------------------------------------------------------------------
(* generator, setvalues, OpsGenerator, setops.                             *)

\* iter(v): generator over v, cur at cbegin.
iter(v) == [seq |-> v, cur |-> 1]

\* A generator::next() that returns *cur and leaves cur where it is.
generator_next_NoAdvance(g) ==
    IF g.cur = Len(g.seq) + 1
    THEN [thrown |-> TRUE, val |-> 0, g |-> g]
    ELSE [thrown |-> FALSE, val |-> g.seq[g.cur], g |-> g]

\* generator::next(): throws at the end, else returns *cur++.
generator_next(g) ==
    IF g.cur = Len(g.seq) + 1
    THEN [thrown |-> TRUE, val |-> 0, g |-> g]
    ELSE [thrown |-> FALSE, val |-> g.seq[g.cur], g |-> [g EXCEPT !.cur = g.cur + 1]]

\* setvalues(t, g) on the state st = [value, g, thrown]; an exception thrown
\* by g.next() ends the walk with the leaves written so far.
RECURSIVE setvalues(_, _)
RECURSIVE setvalues_args(_, _, _)
setvalues(t, st) ==
    IF st.thrown THEN st
    ELSE IF t.kind = "Value"
    THEN LET r == generator_next(st.g)
         IN  IF r.thrown THEN [st EXCEPT !.thrown = TRUE]
             ELSE [value |-> [st.value EXCEPT ![t.id] = FromInt(r.val)],
                   g |-> r.g, thrown |-> FALSE]
    ELSE setvalues_args(t.args, 1, st)
setvalues_args(args, k, st) ==
    IF k > Len(args) THEN st
    ELSE setvalues_args(args, k + 1, setvalues(args[k], st))

\* OpsGenerator(ops, i)
OpsGenerator(ops, i) == [ops |-> ops, cur |-> i]

\* An OpsGenerator::next() that leaves out cur /= ops.size().
OpsGenerator_next_NoDivide(g) ==
    [val |-> g.ops[(g.cur % Len(g.ops)) + 1], g |-> g]

\* OpsGenerator::next(): ops[cur % ops.size()], then cur /= ops.size().
OpsGenerator_next(g) ==
    [val |-> g.ops[(g.cur % Len(g.ops)) + 1],
     g |-> [g EXCEPT !.cur = g.cur \div Len(g.ops)]]

\* setops(t, g) on the state st = [op, g].
RECURSIVE setops(_, _)
RECURSIVE setops_args(_, _, _)
setops(t, st) ==
    IF t.kind = "Expr"
    THEN LET r == OpsGenerator_next(st.g)
             st1 == IF Len(t.args) = 2
                    THEN [op |-> [st.op EXCEPT ![t.id] = r.val], g |-> r.g]
                    ELSE st
         IN  setops_args(t.args, 1, st1)
    ELSE st
setops_args(args, k, st) ==
    IF k > Len(args) THEN st
    ELSE setops_args(args, k + 1, setops(args[k], st))

----------------------------------------------------------------------------
(* enumtrees.  The recursion passes callbacks; a callback is the list of   *)
(* the lambdas still to run, innermost first, and the empty list is the    *)
(* callback the outermost caller gave:                                     *)
(*   [k |-> "t", i]  the lambda over t of the loop round i, which runs     *)
(*                   enumtrees(i, lambda over s),                          *)
(*   [k |-> "s", t]  the lambda over s, which calls cb(Expr::make(t, s)).  *)
(* Every call of a callback is the last thing its caller does, so the      *)
(* call stack needs only the for loops in progress: [nleaves, i, cb].      *)

lambda_t(i, cb) == <<[k |-> "t", i |-> i, t |-> NoNode]>> \o cb
lambda_s(t, cb) == <<[k |-> "s", i |-> 0, t |-> t]>> \o cb

\* The leaf count of the left subtrees in loop round i: nleaves-i.
LeftLeaves(nleaves, i) == nleaves - i

\* A loop that ends one round early, i<nleaves-1.
LoopCond_OneRoundShort(nleaves, i) == i < nleaves - 1

\* The loop condition i<nleaves.
LoopCond(nleaves, i) == i < nleaves

CallEnum(n, cb) == [op |-> "call", n |-> n, cb |-> cb, x |-> NoNode]
CallCb(cb, x) == [op |-> "cb", n |-> 0, cb |-> cb, x |-> x]
ReturnEnum == [op |-> "ret", n |-> 0, cb |-> <<>>, x |-> NoNode]

\* Runs enumtrees from the control point ctl until the outermost callback is
\* called with a tree ("deliver") or the outermost enumtrees returns
\* ("return").  nextid names the next object make_shared creates.
RECURSIVE enumtrees_run(_, _, _)
enumtrees_run(ctl, stk, nid) ==
    CASE ctl.op = "call" ->
           IF ctl.n < 1 THEN enumtrees_run(ReturnEnum, stk, nid)
           ELSE IF ctl.n = 1
           THEN enumtrees_run(CallCb(ctl.cb, Value_make(nid)), stk, nid + 1)
           ELSE IF LoopCond(ctl.n, 1)
           THEN enumtrees_run(
                    CallEnum(LeftLeaves(ctl.n, 1), lambda_t(1, ctl.cb)),
                    <<[nleaves |-> ctl.n, i |-> 1, cb |-> ctl.cb]>> \o stk, nid)
           ELSE enumtrees_run(ReturnEnum, stk, nid)
      [] ctl.op = "cb" ->
           IF ctl.cb = <<>>
           THEN [kind |-> "deliver", tree |-> ctl.x, stack |-> stk, nextid |-> nid]
           ELSE LET c == Head(ctl.cb)
                    cb == Tail(ctl.cb)
                IN  IF c.k = "t"
                    THEN enumtrees_run(CallEnum(c.i, lambda_s(ctl.x, cb)), stk, nid)
                    ELSE enumtrees_run(CallCb(cb, Expr_make(nid, c.t, ctl.x)),
                                       stk, nid + 1)
      [] ctl.op = "ret" ->
           IF stk = <<>>
           THEN [kind |-> "return", tree |-> NoNode, stack |-> <<>>, nextid |-> nid]
           ELSE LET f == Head(stk)
                IN  IF LoopCond(f.nleaves, f.i + 1)
                    THEN enumtrees_run(
                             CallEnum(LeftLeaves(f.nleaves, f.i + 1),
                                      lambda_t(f.i + 1, f.cb)),
                             <<[f EXCEPT !.i = f.i + 1]>> \o Tail(stk), nid)
                    ELSE enumtrees_run(ReturnEnum, Tail(stk), nid)

\* enumtrees(nleaves, cb) from its caller, and its continuation once the
\* outermost callback has returned.
enumtrees(nleaves, nid) == enumtrees_run(CallEnum(nleaves, <<>>), <<>>, nid)
enumtrees_resume(stk, nid) == enumtrees_run(ReturnEnum, stk, nid)

\* The heap once tree t is the only tree alive: the objects it shares with
\* the tree before keep their fields, new ones are as make_shared made them,
\* and the rest were released with their last shared_ptr.
HeapValue(t, value) ==
    [n \in ValueIds(t) |-> IF n \in DOMAIN value THEN value[n] ELSE Zero]
HeapOp(t, op) ==
    [n \in ExprIds(t) |-> IF n \in DOMAIN op THEN op[n] ELSE nullptr]

----------------------------------------------------------------------------
VARIABLES
    pc,       \* where the program is
    nums,     \* main: the operand sequence
    target,   \* main: <<>> without -t, else <<t>>
    nleaves,  \* the leaf count enumtrees was called with
    stack,    \* enumtrees: the for loops in progress
    nextid,   \* the next object make_shared creates
    expr,     \* the tree the callback was called with
    value,    \* heap: value of each live Value
    op,       \* heap: op of each live Expr
    i,        \* main: the operator index of the callback's for loop
    line,     \* main: the last line written to std::cout
    ran,      \* main: rounds the loop of the last finished callback ran
    count,    \* calls of the outermost callback so far
    seen,     \* SpecEnum: the trees the collecting callback kept
    call      \* SpecUnit, SpecCat: the last call and what it returned

vars == <<pc, nums, target, nleaves, stack, nextid, expr, value, op, i, line,
          ran, count, seen, call>>

NoLine == [kind |-> "none", printed |-> FALSE, result |-> Zero, text |-> <<>>]
NoCall == [fn |-> "none"]

----------------------------------------------------------------------------
(* SpecEnum: enumtrees(nleaves, cb) with a callback that keeps every tree  *)
(* it is called with.                                                      *)

InitEnum ==
    /\ pc = "enum_start"
    /\ nleaves \in -1..MaxLeaves
    /\ stack = <<>> /\ nextid = 1 /\ seen = <<>> /\ count = 0
    /\ nums = <<>> /\ target = <<>> /\ expr = NoNode
    /\ value = <<>> /\ op = <<>> /\ i = 0 /\ line = NoLine /\ ran = -1
    /\ call = NoCall

\* What a step of enumtrees does to the collecting caller.
Collect(r) ==
    /\ stack' = r.stack
    /\ nextid' = r.nextid
    /\ IF r.kind = "deliver"
       THEN /\ seen' = Append(seen, r.tree)
            /\ count' = count + 1
            /\ pc' = "enum_cb"
       ELSE /\ UNCHANGED <<seen, count>>
            /\ pc' = "enum_done"
    /\ UNCHANGED <<nums, target, nleaves, expr, value, op, i, line, ran, call>>

\* The caller calls enumtrees, which runs to its first callback or returns.
EnumStart ==
    /\ pc = "enum_start"
    /\ Collect(enumtrees(nleaves, nextid))

\* The callback returns, and enumtrees runs on to the next one or returns.
EnumNext ==
    /\ pc = "enum_cb"
    /\ Collect(enumtrees_resume(stack, nextid))

NextEnum == EnumStart \/ EnumNext

SpecEnum == InitEnum /\ [][NextEnum]_vars

\* The shape of a tree: pre-order, the number of children of each node.
RECURSIVE ShapeOf(_)
RECURSIVE ShapeOfArgs(_, _)
ShapeOf(t) == <<Len(t.args)>> \o ShapeOfArgs(t.args, 1)
ShapeOfArgs(args, k) ==
    IF k > Len(args) THEN <<>> ELSE ShapeOf(args[k]) \o ShapeOfArgs(args, k + 1)

\* Catalan(n) = binom(2n, n) / (n + 1).
RECURSIVE Catalan(_)
Catalan(n) == IF n = 0 THEN 1 ELSE (Catalan(n - 1) * 2 * (2 * n - 1)) \div (n + 1)

TwoChildExprs(t) == {n \in 1..Len(ShapeOf(t)) : ShapeOf(t)[n] = 2}
LeafPositions(t) == {n \in 1..Len(ShapeOf(t)) : ShapeOf(t)[n] = 0}

\* C1: enumtrees(N) calls its callback with exactly Catalan(N-1) trees for
\* N >= 1 and with none for N < 1; every tree has N leaves and N-1 internal
\* nodes, all with two children; no two of the trees have the same shape.
C1_EnumtreesCatalan ==
    /\ \A k \in 1..Len(seen) :
         /\ Cardinality(LeafPositions(seen[k])) = nleaves
         /\ Cardinality(TwoChildExprs(seen[k])) = nleaves - 1
         /\ Len(ShapeOf(seen[k])) = 2 * nleaves - 1
    /\ Cardinality({ShapeOf(seen[k]) : k \in 1..Len(seen)}) = Len(seen)
    /\ pc = "enum_done" =>
         Len(seen) = (IF nleaves < 1 THEN 0 ELSE Catalan(nleaves - 1))

\* enumtrees(5) has returned after 14 callbacks.
C1_Witness == pc = "enum_done" /\ nleaves = 5 /\ Len(seen) = 14

----------------------------------------------------------------------------
(* SpecUnit: one tree, and setvalues, setops, eval and output called on it *)
(* one at a time, in any order, as a test of these functions would.        *)

\* Every tree enumtrees(n) calls its callback with, in order.
RECURSIVE CollectAll(_, _)
CollectAll(r, acc) ==
    IF r.kind = "return" THEN acc
    ELSE CollectAll(enumtrees_resume(r.stack, r.nextid), Append(acc, r.tree))
AllTrees(n) == CollectAll(enumtrees(n, 1), <<>>)

\* The trees of the test: the shapes of up to MaxUnitLeaves leaves, and the
\* small ones below a one-child Expr (Expr::make(l)).
UnitTrees ==
    LET binary(n) == {AllTrees(n)[k] : k \in 1..Len(AllTrees(n))}
    IN  UNION {binary(n) : n \in 1..MaxUnitLeaves}
        \cup {Expr_make1(0, t) : t \in binary(1) \cup binary(2)}

\* The operand sequences of the test, after the ones main builds: 1, 2, ..
\* ascending, descending, and a digit repeated.
Ascending(n) == [k \in 1..n |-> k]
Descending(n) == [k \in 1..n |-> n + 1 - k]
Repeated(d, n) == [k \in 1..n |-> d]
UnitNums ==
    UNION {{Ascending(n), Descending(n)} \cup {Repeated(d, n) : d \in 1..MaxDigit}
           : n \in 0..(MaxUnitLeaves + 1)}

\* Leaves left to right, and two-child Exprs in pre-order.
RECURSIVE LeafSeq(_)
LeafSeq(t) ==
    IF t.kind = "Value" THEN <<t.id>>
    ELSE IF Len(t.args) = 1 THEN LeafSeq(t.args[1])
    ELSE LeafSeq(t.args[1]) \o LeafSeq(t.args[2])

RECURSIVE BinarySeq(_)
BinarySeq(t) ==
    IF t.kind = "Value" THEN <<>>
    ELSE IF Len(t.args) = 1 THEN BinarySeq(t.args[1])
    ELSE <<t.id>> \o BinarySeq(t.args[1]) \o BinarySeq(t.args[2])

RECURSIVE ExactPow(_, _)
ExactPow(r, m) == IF m = 0 THEN 1 ELSE r * ExactPow(r, m - 1)

UnitCall(f, ns, idx, status, result, text, changed) ==
    [fn |-> f, nums |-> ns, idx |-> idx, status |-> status, result |-> result,
     text |-> text, changed |-> changed]

InitUnit ==
    /\ pc = "unit"
    /\ expr \in UnitTrees
    /\ value = FreshValue(expr) /\ op = FreshOp(expr)
    /\ call = UnitCall("none", <<>>, 0, "ok", Zero, <<>>, FALSE)
    /\ nums = <<>> /\ target = <<>> /\ nleaves = 0 /\ stack = <<>>
    /\ nextid = 1 /\ i = 0 /\ line = NoLine /\ ran = -1 /\ count = 0
    /\ seen = <<>>

UnitFrame == UNCHANGED <<pc, nums, target, nleaves, stack, nextid, expr, i,
                         line, ran, count, seen>>

\* auto g = iter(ns); setvalues(expr, g);
CallSetvalues ==
    /\ pc = "unit"
    /\ \E ns \in UnitNums :
         LET st == setvalues(expr, [value |-> value, g |-> iter(ns),
                                    thrown |-> FALSE])
         IN  /\ value' = st.value
             /\ call' = UnitCall("setvalues", ns, 0,
                           IF st.thrown THEN "end of iteration" ELSE "ok",
                           Zero, <<>>,
                           \E n \in DOMAIN value :
                               value[n] # Zero /\ value[n] # st.value[n])
    /\ UNCHANGED op
    /\ UnitFrame

\* auto g = OpsGenerator(binops, idx); setops(expr, g);
CallSetops ==
    /\ pc = "unit"
    /\ \E idx \in 0..(ExactPow(Len(binops), Len(BinarySeq(expr))) - 1) :
         /\ op' = setops(expr, [op |-> op, g |-> OpsGenerator(binops, idx)]).op
         /\ call' = UnitCall("setops", <<>>, idx, "ok", Zero, <<>>, FALSE)
    /\ UNCHANGED value
    /\ UnitFrame

\* expr->eval()
CallEval ==
    /\ pc = "unit"
    /\ \E out \in EvalOutcomes(expr, value, op) :
         call' = UnitCall("eval", <<>>, 0, out.status, out.result, <<>>, FALSE)
    /\ UNCHANGED <<value, op>>
    /\ UnitFrame

\* os << expr
CallOutput ==
    /\ pc = "unit"
    /\ call' = UnitCall("output", <<>>, 0, "ok", Zero, output(expr, value, op),
                        FALSE)
    /\ UNCHANGED <<value, op>>
    /\ UnitFrame

NextUnit == CallSetvalues \/ CallSetops \/ CallEval \/ CallOutput

SpecUnit == InitUnit /\ [][NextUnit]_vars

\* The same test with the operators alone, and with the operands alone.
NextOps == CallSetops \/ CallOutput

SpecOps == InitUnit /\ [][NextOps]_vars

NextValues == CallSetvalues \/ CallOutput

SpecValues == InitUnit /\ [][NextValues]_vars

\* C2: after setops with OpsGenerator(binops, i), i in 0..r^m-1, on a tree
\* with m two-child Exprs, the k-th of them in pre-order (k from 0) holds
\* binops[(i div r^k) mod r]; i is recovered from the assignment, so no other
\* index gives it, and the r^m indices give r^m different assignments.
C2_MixedRadix ==
    call.fn = "setops" =>
      LET nodes == BinarySeq(expr)
          m == Len(nodes)
          r == Len(binops)
          digit(k) == CHOOSE d \in 0..(r - 1) : binops[d + 1] = op[nodes[k + 1]]
          RECURSIVE Index(_)
          Index(k) == IF k = m THEN 0 ELSE digit(k) + r * Index(k + 1)
      IN  /\ \A k \in 0..(m - 1) :
               op[nodes[k + 1]] = binops[((call.idx \div ExactPow(r, k)) % r) + 1]
          /\ Index(0) = call.idx
          /\ call.idx = 0 =>
               Cardinality({setops(expr, [op |-> op,
                                          g |-> OpsGenerator(binops, j)]).op
                            : j \in 0..(ExactPow(r, m) - 1)}) = ExactPow(r, m)

\* setops ran with index 17 = 5 + 2*6 on a tree with two two-child Exprs.
C2_Witness ==
    /\ call.fn = "setops" /\ call.idx = 17 /\ Len(BinarySeq(expr)) = 2
    /\ op[BinarySeq(expr)[1]] = binops[6] /\ op[BinarySeq(expr)[2]] = binops[3]

\* C4: after setvalues with as many operands as the tree has leaves, the
\* j-th leaf from the left holds the j-th operand, whatever the leaves held
\* before the call.
C4_SetvaluesInOrder ==
    (call.fn = "setvalues" /\ Len(call.nums) = Len(LeafSeq(expr))) =>
      /\ call.status = "ok"
      /\ \A j \in 1..Len(call.nums) :
           value[LeafSeq(expr)[j]] = FromInt(call.nums[j])

\* setvalues wrote 1, 2, 3 over leaves that held other operands.
C4_Witness ==
    /\ call.fn = "setvalues" /\ call.nums = <<1, 2, 3>> /\ call.changed
    /\ Len(LeafSeq(expr)) = 3 /\ call.status = "ok"

\* A tree of the test is fully assigned: two children and an op everywhere.
FullyAssigned(t, o) ==
    /\ Len(ShapeOf(t)) = 2 * Len(LeafSeq(t)) - 1
    /\ ~DerefsNull(t, o)

\* The heap of tree t after setvalues with the operands ns and setops with
\* OpsGenerator(binops, idx), from a new tree.
Assigned(t, ns, idx) ==
    [value |-> setvalues(t, [value |-> FreshValue(t), g |-> iter(ns),
                             thrown |-> FALSE]).value,
     op |-> setops(t, [op |-> FreshOp(t), g |-> OpsGenerator(binops, idx)]).op]

\* C5 (as claimed): output never leaves out brackets the value depends on.
\* The text decides the value: a fully assigned tree over the same operands
\* whose text is the same has the same value, whichever way the text is read.
C5_SameTextSameValue ==
    (call.fn = "output" /\ FullyAssigned(expr, op)) =>
      LET leaves == LeafSeq(expr)
          ns == [k \in 1..Len(leaves) |-> value[leaves[k]][1]]
          v == eval(expr, value, op)
      IN  \A t \in UnitTrees :
            (Len(ShapeOf(t)) = 2 * Len(LeafSeq(t)) - 1
             /\ Len(LeafSeq(t)) = Len(leaves)) =>
              \A j \in 0..(ExactPow(Len(binops), Len(BinarySeq(t))) - 1) :
                LET h == Assigned(t, ns, j)
                    w == eval(t, h.value, h.op)
                IN  (output(t, h.value, h.op) = call.text
                     /\ v # UNK /\ w # UNK) => w = v

\* output wrote 1-2-3 for the tree 1-(2-3), whose value is 2.
C5_Witness ==
    /\ call.fn = "output" /\ FullyAssigned(expr, op)
    /\ ShapeOf(expr) = <<2, 0, 2, 0, 0>>
    /\ call.text = <<"1", "-", "2", "-", "3">>
    /\ eval(expr, value, op) = <<2, 1>>

\* The tree of the scenario: a leaf combined with (leaf, leaf), the operands
\* 1, 2, 3 on its leaves and the first operation, +, on both Exprs.
PlusScenario ==
    /\ ShapeOf(expr) = <<2, 0, 2, 0, 0>>
    /\ [k \in 1..3 |-> value[LeafSeq(expr)[k]]] = <<<<1, 1>>, <<2, 1>>, <<3, 1>>>>
    /\ \A n \in ExprIds(expr) :
         /\ op[n] = binops[1]
         /\ oplist[op[n]].infix = <<"+">>
         /\ oplist[op[n]].precedence = 1

\* C6 (as claimed): on the scenario's tree setops with index 0 assigns + to
\* both Exprs, output writes 1+(2+3) and eval returns 6.
C6_PlusScenario ==
    /\ (call.fn = "setops" /\ call.idx = 0 /\ ShapeOf(expr) = <<2, 0, 2, 0, 0>>)
         => \A n \in ExprIds(expr) : op[n] = binops[1]
    /\ (call.fn = "output" /\ PlusScenario)
         => call.text = <<"1", "+", "(", "2", "+", "3", ")">>
    /\ (call.fn = "eval" /\ PlusScenario) => call.result = <<6, 1>>

\* output wrote 1+2+3 for the tree of the scenario.
C6_Witness ==
    /\ call.fn = "output" /\ PlusScenario
    /\ call.text = <<"1", "+", "2", "+", "3">>

\* C7 (as claimed): setvalues with fewer or with more operands than the tree
\* has leaves ends in an error.
C7_MismatchIsAnError ==
    (call.fn = "setvalues" /\ Len(call.nums) # Len(LeafSeq(expr))) =>
        call.status # "ok"

\* setvalues returned normally with four operands for three leaves.
C7_Witness ==
    /\ call.fn = "setvalues" /\ call.status = "ok"
    /\ Len(call.nums) = 4 /\ Len(LeafSeq(expr)) = 3

\* C8 (as claimed): eval on a tree with an Expr that has no op ends in the
\* error "unassigned operator".
C8_UnassignedIsAnError ==
    (call.fn = "eval" /\ DerefsNull(expr, op)) =>
        call.status = "unassigned operator"

\* eval dereferenced the null op of a two-child Expr and the process died.
C8_Witness ==
    /\ call.fn = "eval" /\ DerefsNull(expr, op) /\ call.status = "segfault"
    /\ Len(LeafSeq(expr)) = 2 /\ Len(BinarySeq(expr)) = 1

----------------------------------------------------------------------------
(* SpecCat: the cat operation and tenfactor on non-negative integers.      *)

CatCall(f, a, b, result) == [fn |-> f, a |-> a, b |-> b, result |-> result]

InitCat ==
    /\ pc = "cat"
    /\ call = CatCall("none", 0, 0, Zero)
    /\ nums = <<>> /\ target = <<>> /\ nleaves = 0 /\ stack = <<>>
    /\ nextid = 1 /\ expr = NoNode /\ value = <<>> /\ op = <<>> /\ i = 0
    /\ line = NoLine /\ ran = -1 /\ count = 0 /\ seen = <<>>

CatFrame == UNCHANGED <<pc, nums, target, nleaves, stack, nextid, expr, value,
                        op, i, line, ran, count, seen>>

\* oplist[5].fn({a, b})
CallCat ==
    /\ \E a \in 0..MaxCatArg, b \in 0..MaxCatArg :
         call' = CatCall("cat", a, b, fn(6, <<FromInt(a), FromInt(b)>>))
    /\ CatFrame

\* tenfactor(a)
CallTenfactor ==
    /\ \E a \in 0..MaxCatArg :
         call' = CatCall("tenfactor", a, 0, tenfactor(FromInt(a)))
    /\ CatFrame

NextCat == CallCat \/ CallTenfactor

SpecCat == InitCat /\ [][NextCat]_vars

\* C10 (as claimed): cat(a, b) is the integer written with the digits of a
\* followed by the digits of b, a * 10^(number of digits of b) + b, also for
\* b = 0, which has one digit.
C10_CatConcatenatesDigits ==
    call.fn = "cat" =>
        call.result = FromInt(call.a * ExactPow(10, Len(Digits(call.b))) + call.b)

\* cat(1, 0) returned 1.
C10_Witness ==
    call.fn = "cat" /\ call.a = 1 /\ call.b = 0 /\ call.result = One

----------------------------------------------------------------------------
(* Spec: main, run with -d digit -n count and with or without -t target.   *)

TolNum == 11
TolDen == 100

\* fabs(result-*target)<=0.11 on a tracked double.  The literal 0.11 is the
\* double next to 11/100, and no exact result lies between the two.
Near(result, t) ==
    /\ IsFin(result)
    /\ TolDen * Abs(result[1] - t * result[2]) <= TolNum * result[2]

\* The comparison is that of the rationals: the result is tracked, and if
\* it is a rounded n/d, n/d is not at distance 11/100 of the target, where
\* the roundings of result, of the difference and of 0.11 decide.
Decided(result, t) ==
    /\ result # UNK
    /\ (IsFin(result) /\ ~Exact(result)) =>
         TolDen * Abs(result[1] - t * result[2]) # TolNum * result[2]

\* !target || fabs(result-*target)<=0.11; a result whose comparison the
\* model does not decide may fall on either side.
Reported(result, tgt) ==
    IF tgt = <<>> THEN {TRUE}
    ELSE IF ~Decided(result, tgt[1]) THEN BOOLEAN
    ELSE {Near(result, tgt[1])}

\* The targets tried with -t.
MaxTarget == 2

MainInputs ==
    {[digit |-> d, count |-> n, target |-> t] :
        d \in 1..MaxDigit, n \in 1..MaxCount,
        t \in {<<>>} \cup {<<x>> : x \in 0..MaxTarget}}
    \cup {[digit |-> 1, count |-> n, target |-> <<>>] : n \in {ShareCount, BigCount}}

\* if (count > 0 && digit>0) { nums.clear(); nums.resize(count, digit); }
Init ==
    /\ pc = "start"
    /\ \E in \in MainInputs :
         /\ nums = Repeated(in.digit, in.count)
         /\ target = in.target
    /\ nleaves = Len(nums)
    /\ stack = <<>> /\ nextid = 1 /\ expr = NoNode
    /\ value = <<>> /\ op = <<>> /\ i = 0 /\ line = NoLine /\ ran = -1
    /\ count = 0 /\ seen = <<>> /\ call = NoCall

\* What a step of enumtrees does to main: its callback is entered with the
\* tree, writes the "=========" line and sets i = 0; or enumtrees returns
\* and main ends.
Callback(r) ==
    /\ stack' = r.stack
    /\ nextid' = r.nextid
    /\ IF r.kind = "deliver"
       THEN /\ expr' = r.tree
            /\ value' = HeapValue(r.tree, value)
            /\ op' = HeapOp(r.tree, op)
            /\ line' = [kind |-> "shape", printed |-> TRUE, result |-> Zero,
                        text |-> output(r.tree, value', op')]
            /\ i' = 0
            /\ count' = count + 1
            /\ pc' = "loop"
       ELSE /\ UNCHANGED <<expr, value, op, line, i, count>>
            /\ pc' = "exit"
    /\ UNCHANGED <<nums, target, nleaves, seen, call>>

\* main calls enumtrees(nums.size(), callback).
Start ==
    /\ pc = "start"
    /\ Callback(enumtrees(Len(nums), nextid))
    /\ UNCHANGED ran

\* One round of the callback's for loop.
Iterate ==
    /\ pc = "loop"
    /\ i < intpow(Len(binops), Len(nums) - 1)
    /\ LET sv == setvalues(expr, [value |-> value, g |-> iter(nums),
                                  thrown |-> FALSE])
           so == setops(expr, [op |-> op, g |-> OpsGenerator(binops, i)])
       IN  /\ value' = sv.value
           /\ op' = IF sv.thrown THEN op ELSE so.op
           /\ \E out \in EvalOutcomes(expr, value', op') :
              \E p \in Reported(out.result, target) :
                IF sv.thrown \/ out.status = "segfault"
                THEN /\ pc' = "terminated"
                     /\ UNCHANGED <<line, i>>
                ELSE /\ line' = [kind |-> "result", printed |-> p,
                                 result |-> out.result,
                                 text |-> IF p THEN output(expr, value', op')
                                          ELSE <<>>]
                     /\ i' = i + 1
                     /\ pc' = "loop"
    /\ UNCHANGED <<nums, target, nleaves, stack, nextid, expr, ran, count,
                   seen, call>>

\* The loop condition fails, the callback returns, and enumtrees runs on to
\* the next tree or returns.
Return ==
    /\ pc = "loop"
    /\ ~(i < intpow(Len(binops), Len(nums) - 1))
    /\ ran' = i
    /\ Callback(enumtrees_resume(stack, nextid))

Next == Start \/ Iterate \/ Return

Spec == Init /\ [][Next]_vars

\* x = r^m, without computing r^m.
RECURSIVE IsPow(_, _, _)
IsPow(x, r, m) ==
    IF m = 0 THEN x = 1
    ELSE x > 0 /\ x % r = 0 /\ IsPow(x \div r, r, m - 1)

\* The heap of the combination (expr, idx) as the claim describes it: the
\* j-th leaf holds the j-th operand, the k-th two-child Expr in pre-order
\* holds binops[(idx div r^k) mod r].
RefValue(t, ns) ==
    [n \in ValueIds(t) |->
        FromInt(ns[CHOOSE j \in 1..Len(LeafSeq(t)) : LeafSeq(t)[j] = n])]
RefOp(t, idx) ==
    [n \in ExprIds(t) |->
        LET k == CHOOSE j \in 1..Len(BinarySeq(t)) : BinarySeq(t)[j] = n
        IN  binops[((idx \div ExactPow(Len(binops), k - 1)) % Len(binops)) + 1]]

\* C3 (as claimed): a round of the loop writes the result line of its
\* combination exactly when there is no target or the value of the
\* combination is within 0.11 of the target, and by the time the callback
\* returns its loop has run every one of the r^(N-1) operator indices once.
C3_ReportsExactlyTheMatches ==
    /\ (pc = "loop" /\ line.kind = "result") =>
         LET ref == eval(expr, RefValue(expr, nums), RefOp(expr, i - 1))
         IN  /\ ref # UNK => line.result = ref
             /\ (target = <<>> \/ Decided(ref, target[1])) =>
                  /\ line.printed = (target = <<>> \/ Near(ref, target[1]))
                  /\ line.printed =>
                       line.text = output(expr, RefValue(expr, nums),
                                          RefOp(expr, i - 1))
    /\ ran # -1 => IsPow(ran, Len(binops), Len(nums) - 1)

\* C9 (as claimed): when the callback is entered, no Expr of the tree has an
\* op and no leaf holds an operand: every node is as make_shared made it.
C9_DeliveredTreeIsFresh ==
    (pc = "loop" /\ line.kind = "shape") =>
        /\ value = FreshValue(expr)
        /\ op = FreshOp(expr)

\* The callback was entered with a tree whose left subtree still holds the
\* ops and operands of the last combination of the tree before.
C9_Witness ==
    /\ pc = "loop" /\ line.kind = "shape" /\ Len(nums) = ShareCount
    /\ \E n \in ExprIds(expr) : op[n] # nullptr
    /\ \E n \in ValueIds(expr) : value[n] # Zero

\* With thirteen operands the callback returned without a round of its loop.
C3_Witness ==
    /\ Len(nums) = BigCount /\ ran = 0 /\ count >= 1
    /\ intpow(Len(binops), Len(nums) - 1) < 0

============================================================================
